---- MODULE Spec2Model ----
(***************************************************************************)
(* Habit tracker (src/app.py): the Habit and Completion tables, the        *)
(* request handlers that change them, and the weekly progress and trend    *)
(* computation of the index view.                                          *)
(*                                                                         *)
(* Dates are proleptic Gregorian ordinals, as datetime.date.toordinal()    *)
(* numbers them; date.weekday() is (ordinal + 6) % 7, Monday = 0.          *)
(* The time-of-day tags are emoji in the source; they are written here as  *)
(* ASCII strings: "partly_sunny" for U+26C5, "sunny" for U+2600,           *)
(* "sunset" for U+1F307, "stars" for U+1F320.                              *)
(***************************************************************************)
EXTENDS Integers, Sequences, FiniteSets, TLC

VARIABLES
    habits,       \* the habit table: a set of Habit rows
    completions,  \* the completion table: a set of Completion rows
    today,        \* what date.today() returns
    req,          \* the request handled last
    resp,         \* its response
    view,         \* what the index view handed to the template, or NoView
    hist,         \* history: the run of toggles of one (habit_id, day) the last
                  \* request belongs to, and how many rows the request deleted
    pc,           \* per worker: where its toggle_completion request stands
    local,        \* per worker: the locals of its toggle_completion request
    stale         \* history: some DELETE of a commit matched no row

vars == <<habits, completions, today, req, resp, view, hist, pc, local, stale>>

----
\* Bounds of the model.

MaxHabitId == 2
MaxCompletionId == 2
MaxIndexRows == 3

\* 2023-12-31, a Sunday, and the Monday after it.
Sunday == 7 * 105556 - 7
Monday == Sunday + 1

TimesOfDay == {"partly_sunny", "sunny"}
Days == {Sunday, Monday}
LastToday == Monday
Workers == {1, 2}

\* An index view not rendered.
NoView == {}

----
\* datetime.date

weekday(d) == (d + 6) % 7

----
\* The tables.

\* Column default of Habit.time_of_day.
HabitDefaultTimeOfDay == "sunny"

Habit(id, name, description, created_at, time_of_day) ==
    [id |-> id, name |-> name, description |-> description,
     created_at |-> created_at, time_of_day |-> time_of_day]

Completion(id, habit_id, day, completed, name, description, time_of_day) ==
    [id |-> id, habit_id |-> habit_id, date |-> day, completed |-> completed,
     name |-> name, description |-> description, time_of_day |-> time_of_day]

MaxOf(S) == CHOOSE x \in S : \A y \in S : y <= x

\* An INTEGER PRIMARY KEY without AUTOINCREMENT: one more than the largest
\* id in the table, 1 for an empty table.
NextId(table) == IF table = {} THEN 1 ELSE MaxOf({r.id : r \in table}) + 1

\* Habit.query.get(habit_id): {the row}, or {} for None.
HabitGet(habit_id) == {h \in habits : h.id = habit_id}

\* Completion.query.filter_by(habit_id=habit_id, date=day)
CompletionsFor(rows, habit_id, day) ==
    {c \in rows : c.habit_id = habit_id /\ c.date = day}

\* The (name, description, time_of_day) of a Habit or Completion row.
Frozen(r) == <<r.name, r.description, r.time_of_day>>

----
\* Requests and responses.

\* A form field the request does not carry.
Missing == "<missing>"

Form(name, description, time_of_day) ==
    [name |-> name, description |-> description, time_of_day |-> time_of_day]

NoForm == Form(Missing, Missing, Missing)

Request(op, habit_id, day, form) ==
    [op |-> op, habit_id |-> habit_id, day |-> day, form |-> form]

NoRequest == Request("none", 0, 0, NoForm)

Redirect == "302 index"
NotFound == "404"
ServerError == "500"
Rendered == "200"
NoResponse == "none"

\* request.form.get(key, default)
FormGet(form, key, default) == IF form[key] = Missing THEN default ELSE form[key]

\* hist.n: how many toggles of req's (habit_id, day) ran last, in a row and
\* with nothing in between (counted up to 2); hist.before: the frozen fields
\* of the rows for that pair before the first of them; hist.deleted: how many
\* Completion rows the last request deleted.
History(n, before, deleted) == [n |-> n, before |-> before, deleted |-> deleted]
Deleted(k) == History(0, {}, k)
NoToggles == Deleted(0)

Idle == [w \in Workers |-> "idle"]
NoLocals == [w \in Workers |-> {}]

----
Init ==
    /\ habits = {}
    /\ completions = {}
    /\ today = Sunday
    /\ req = NoRequest
    /\ resp = NoResponse
    /\ view = NoView
    /\ hist = NoToggles
    /\ pc = Idle
    /\ local = NoLocals
    /\ stale = FALSE

\* What a sequential request leaves alone: the workers of the concurrent
\* specification.
SequentialFrame == UNCHANGED <<pc, local, stale>>

\* The forms add_habit can receive: a name, and optionally the other fields.
AddForms ==
    { Form("Read", Missing, Missing),
      Form("Read", Missing, "sunny"),
      Form("Read More", "daily", "sunny") }

\* POST /add_habit
add_habit ==
    \E form \in AddForms :
        /\ NextId(habits) <= MaxHabitId
        /\ LET name == form["name"]
               description == FormGet(form, "description", "")
               time_of_day == FormGet(form, "time_of_day", "partly_sunny")
               new_habit == Habit(NextId(habits), name, description, today, time_of_day)
           IN  habits' = habits \cup {new_habit}
        /\ req' = Request("add_habit", 0, 0, form)
        /\ resp' = Redirect
        /\ view' = NoView
        /\ hist' = NoToggles
        /\ UNCHANGED <<completions, today>>
        /\ SequentialFrame

----
\* POST /toggle

\* ToggleLookups without the lookup of line 112: existing is always None.
ToggleLookups_NoLookup(rows, h, day) ==
    { [habit_id |-> h.id, day |-> day, name |-> h.name,
       description |-> h.description, time_of_day |-> h.time_of_day,
       existing |-> {}] }

\* Lines 101-112: the locals of the request once the lookups are done. The
\* habit is an existing row h. first() has no ORDER BY: with several rows
\* for the pair it may return any of them. existing is {} for None.
ToggleLookups(rows, h, day) ==
    LET found == CompletionsFor(rows, h.id, day)
    IN  { [habit_id |-> h.id, day |-> day, name |-> h.name,
           description |-> h.description, time_of_day |-> h.time_of_day,
           existing |-> e] :
          e \in IF found = {} THEN {{}} ELSE {{c} : c \in found} }

\* ToggleCommit that flags the existing row instead of deleting it.
ToggleCommit_Flags(rows, l) ==
    IF l.existing # {}
    THEN {IF \E e \in l.existing : c.id = e.id
          THEN [c EXCEPT !.completed = ~c.completed] ELSE c : c \in rows}
    ELSE rows \cup {Completion(NextId(rows), l.habit_id, l.day, TRUE,
                               l.name, l.description, l.time_of_day)}

\* ToggleCommit over a table with a unique (habit_id, date): the INSERT of a
\* second row for the pair is refused.
ToggleCommit_Unique(rows, l) ==
    IF l.existing # {}
    THEN {c \in rows : \A e \in l.existing : c.id # e.id}
    ELSE IF CompletionsFor(rows, l.habit_id, l.day) # {} THEN rows
    ELSE rows \cup {Completion(NextId(rows), l.habit_id, l.day, TRUE,
                               l.name, l.description, l.time_of_day)}

\* Lines 113-124: the table after the commit. The DELETE names the row by
\* its primary key.
ToggleCommit(rows, l) ==
    IF l.existing # {}
    THEN {c \in rows : \A e \in l.existing : c.id # e.id}
    ELSE rows \cup {Completion(NextId(rows), l.habit_id, l.day, TRUE,
                               l.name, l.description, l.time_of_day)}

\* The commit can be modelled: an INSERT stays within the bound on ids.
CommitInBounds(rows, l) == l.existing # {} \/ NextId(rows) <= MaxCompletionId

\* The run of consecutive toggles of one (habit_id, day) this toggle belongs to:
\* the second of a pair keeps what the pair started from.
Toggled(habit_id, day, deleted) ==
    IF /\ hist.n = 1
       /\ req = Request("toggle_completion", habit_id, day, NoForm)
       /\ resp = Redirect
    THEN History(2, hist.before, deleted)
    ELSE History(1, {Frozen(c) : c \in CompletionsFor(completions, habit_id, day)},
                 deleted)

toggle_completion ==
    \E habit_id \in 1..MaxHabitId, day \in Days :
        /\ req' = Request("toggle_completion", habit_id, day, NoForm)
        /\ view' = NoView
        /\ IF HabitGet(habit_id) = {}
           THEN \* habit is None: habit.name raises AttributeError
                /\ resp' = ServerError
                /\ hist' = NoToggles
                /\ UNCHANGED completions
           ELSE \E h \in HabitGet(habit_id) :
                \E l \in ToggleLookups(completions, h, day) :
                    /\ CommitInBounds(completions, l)
                    /\ completions' = ToggleCommit(completions, l)
                    /\ resp' = Redirect
                    /\ hist' = Toggled(habit_id, day,
                            Cardinality(completions \ completions'))
        /\ UNCHANGED <<habits, today>>
        /\ SequentialFrame

----
\* POST /reset_week

start_of_week(day) == day - weekday(day)
end_of_week(day) == start_of_week(day) + 6

\* between that leaves the upper end out.
between_Exclusive(d, lo, hi) == lo <= d /\ d < hi

\* Completion.date.between(lo, hi)
between(d, lo, hi) == lo <= d /\ d <= hi

reset_week ==
    /\ LET deleted == {c \in completions :
                         between(c.date, start_of_week(today), end_of_week(today))}
       IN  /\ completions' = completions \ deleted
           /\ hist' = Deleted(Cardinality(deleted))
    /\ req' = Request("reset_week", 0, 0, NoForm)
    /\ resp' = Redirect
    /\ view' = NoView
    /\ UNCHANGED <<habits, today>>
    /\ SequentialFrame

----
\* delete_habit that deletes the Habit row alone.
delete_habit_NoCascade ==
    \E habit_id \in 1..MaxHabitId :
        /\ req' = Request("delete_habit", habit_id, 0, NoForm)
        /\ view' = NoView
        /\ IF HabitGet(habit_id) = {}
           THEN /\ resp' = NotFound
                /\ UNCHANGED habits
           ELSE \E habit \in HabitGet(habit_id) :
                /\ habits' = habits \ {habit}
                /\ resp' = Redirect
        /\ hist' = Deleted(0)
        /\ UNCHANGED <<completions, today>>
        /\ SequentialFrame

\* POST /delete_habit/<habit_id>
delete_habit ==
    \E habit_id \in 1..MaxHabitId :
        /\ req' = Request("delete_habit", habit_id, 0, NoForm)
        /\ view' = NoView
        /\ IF HabitGet(habit_id) = {}
           THEN /\ resp' = NotFound
                /\ UNCHANGED <<habits, completions>>
           ELSE \E habit \in HabitGet(habit_id) :
                /\ completions' = {c \in completions : c.habit_id # habit.id}
                /\ habits' = habits \ {habit}
                /\ resp' = Redirect
        /\ hist' = Deleted(Cardinality(completions \ completions'))
        /\ UNCHANGED today
        /\ SequentialFrame

\* The forms edit_habit can receive on POST.
EditForms ==
    { Form("Read", "", "partly_sunny"),
      Form("Read More", "daily", "sunny") }

\* GET /edit_habit/<habit_id>
edit_habit_get ==
    \E habit_id \in 1..MaxHabitId :
        /\ req' = Request("edit_habit GET", habit_id, 0, NoForm)
        /\ resp' = IF HabitGet(habit_id) = {} THEN NotFound ELSE Rendered
        /\ view' = NoView
        /\ hist' = NoToggles
        /\ UNCHANGED <<habits, completions, today>>
        /\ SequentialFrame

\* edit_habit that writes the new fields to the habit's Completion rows too.
edit_habit_post_Refreezes ==
    \E habit_id \in 1..MaxHabitId, form \in EditForms :
        /\ req' = Request("edit_habit POST", habit_id, 0, form)
        /\ view' = NoView
        /\ hist' = NoToggles
        /\ IF HabitGet(habit_id) = {}
           THEN /\ resp' = NotFound
                /\ UNCHANGED <<habits, completions>>
           ELSE \E habit \in HabitGet(habit_id) :
                /\ habits' = (habits \ {habit}) \cup
                        {[habit EXCEPT !.name = form["name"],
                                       !.description = form["description"],
                                       !.time_of_day = form["time_of_day"]]}
                /\ completions' =
                        {IF c.habit_id = habit.id
                         THEN [c EXCEPT !.name = form["name"],
                                        !.description = form["description"],
                                        !.time_of_day = form["time_of_day"]]
                         ELSE c : c \in completions}
                /\ resp' = Redirect
        /\ UNCHANGED today
        /\ SequentialFrame

\* POST /edit_habit/<habit_id>
edit_habit_post ==
    \E habit_id \in 1..MaxHabitId, form \in EditForms :
        /\ req' = Request("edit_habit POST", habit_id, 0, form)
        /\ view' = NoView
        /\ hist' = NoToggles
        /\ IF HabitGet(habit_id) = {}
           THEN /\ resp' = NotFound
                /\ UNCHANGED habits
           ELSE \E habit \in HabitGet(habit_id) :
                /\ habits' = (habits \ {habit}) \cup
                        {[habit EXCEPT !.name = form["name"],
                                       !.description = form["description"],
                                       !.time_of_day = form["time_of_day"]]}
                /\ resp' = Redirect
        /\ UNCHANGED <<completions, today>>
        /\ SequentialFrame

\* update_time_of_day with query.get in place of get_or_404: a missing habit
\* is skipped and the request redirects.
update_time_of_day_Lenient ==
    \E habit_id \in 1..MaxHabitId, t \in TimesOfDay :
        /\ req' = Request("update_time_of_day", habit_id, 0, Form(Missing, Missing, t))
        /\ view' = NoView
        /\ hist' = NoToggles
        /\ habits' = {IF h.id = habit_id THEN [h EXCEPT !.time_of_day = t] ELSE h :
                        h \in habits}
        /\ resp' = Redirect
        /\ UNCHANGED <<completions, today>>
        /\ SequentialFrame

\* POST /update_time_of_day/<habit_id>
update_time_of_day ==
    \E habit_id \in 1..MaxHabitId, t \in TimesOfDay :
        /\ req' = Request("update_time_of_day", habit_id, 0, Form(Missing, Missing, t))
        /\ view' = NoView
        /\ hist' = NoToggles
        /\ IF HabitGet(habit_id) = {}
           THEN /\ resp' = NotFound
                /\ UNCHANGED habits
           ELSE \E habit \in HabitGet(habit_id) :
                /\ habits' = (habits \ {habit}) \cup
                        {[habit EXCEPT !.time_of_day = t]}
                /\ resp' = Redirect
        /\ UNCHANGED <<completions, today>>
        /\ SequentialFrame

----
\* GET /

\* time_order.get(tag, 4)
time_order(tag) ==
    CASE tag = "partly_sunny" -> 0
      [] tag = "sunny" -> 1
      [] tag = "sunset" -> 2
      [] tag = "stars" -> 3
      [] OTHER -> 4

\* name.lower(), and the lower-case names in ascending string order.
lower(name) ==
    CASE name = "Read" -> "read"
      [] name = "Read More" -> "read more"
      [] OTHER -> name
LowerNames == <<"read", "read more">>
StrRank(str) == CHOOSE i \in 1..Len(LowerNames) : LowerNames[i] = str

\* key(a) < key(b) for the sort key (time_order, name.lower()).
KeyLess(a, b) ==
    \/ time_order(a.time_of_day) < time_order(b.time_of_day)
    \/ /\ time_order(a.time_of_day) = time_order(b.time_of_day)
       /\ StrRank(lower(a.name)) < StrRank(lower(b.name))

\* The rows of a table in the order of their ids.
RECURSIVE ById(_)
ById(table) ==
    IF table = {} THEN <<>>
    ELSE LET first == CHOOSE r \in table : \A o \in table : r.id <= o.id
         IN  <<first>> \o ById(table \ {first})

\* sorted order of two rows: list.sort is stable, and Habit.query.all()
\* returns the rows in the order of their ids.
SortsBefore(a, b) == KeyLess(a, b) \/ (~KeyLess(b, a) /\ a.id < b.id)

\* habits.sort(key=lambda h: (time_order.get(h.time_of_day, 4), h.name.lower()))
RECURSIVE Sorted(_)
Sorted(rows) ==
    IF rows = {} THEN <<>>
    ELSE LET first == CHOOSE r \in rows : \A o \in rows \ {r} : SortsBefore(r, o)
         IN  <<first>> \o Sorted(rows \ {first})

\* week_dates over range(1, 8).
week_dates_FromOne(day) == [i \in 1..7 |-> start_of_week(day) + i]

week_dates(day) == [i \in 1..7 |-> start_of_week(day) + (i - 1)]
last_week_dates(day) == [i \in 1..7 |-> week_dates(day)[i] - 7]

\* The keys of completed_map; every value of the dict is True.
completed_map(rows) == {<<c.habit_id, c.date>> : c \in rows}

\* sum(1 for d in dates if completed_map.get((habit_id, d)))
RECURSIVE completed_days(_, _, _)
completed_days(cmap, habit_id, dates) ==
    IF dates = <<>> THEN 0
    ELSE (IF <<habit_id, Head(dates)>> \in cmap THEN 1 ELSE 0)
         + completed_days(cmap, habit_id, Tail(dates))

\* n / 7: the quotient as numerator and denominator.
Fraction(n) == <<n, 7>>
FractionLess(a, b) == a[1] * b[2] < b[1] * a[2]

Improved == "chart_up"
Worsened == "chart_down"
Flat == "minus"

\* trend with >= for >.
trend_GreaterEqual(curr, last) ==
    IF ~FractionLess(curr, last) THEN Improved
    ELSE IF FractionLess(curr, last) THEN Worsened
    ELSE Flat

trend(curr, last) ==
    IF FractionLess(last, curr) THEN Improved
    ELSE IF FractionLess(curr, last) THEN Worsened
    ELSE Flat

\* What index passes to the template.
IndexView ==
    LET cmap == completed_map(completions)
        habit_progress == [h \in habits |->
            Fraction(completed_days(cmap, h.id, week_dates(today)))]
        last_week_progress == [h \in habits |->
            Fraction(completed_days(cmap, h.id, last_week_dates(today)))]
    IN  [habits |-> Sorted(habits),
         week_dates |-> week_dates(today),
         completed_map |-> cmap,
         habit_progress |-> [id \in {h.id : h \in habits} |->
             habit_progress[CHOOSE h \in habits : h.id = id]],
         trend_icon |-> [id \in {h.id : h \in habits} |->
             LET h == CHOOSE x \in habits : x.id = id
             IN  trend(habit_progress[h], last_week_progress[h])]]

index ==
    /\ req' = Request("index", 0, 0, NoForm)
    /\ resp' = Rendered
    /\ view' = {IndexView}
    /\ hist' = NoToggles
    /\ UNCHANGED <<habits, completions, today>>
    /\ SequentialFrame

\* GET /admin
admin_panel ==
    /\ req' = Request("admin_panel", 0, 0, NoForm)
    /\ resp' = Rendered
    /\ view' = {[habits |-> ById(habits), completions |-> ById(completions)]}
    /\ hist' = NoToggles
    /\ UNCHANGED <<habits, completions, today>>
    /\ SequentialFrame

----
\* The clock: date.today() moves on to the next day.
midnight ==
    /\ today < LastToday
    /\ today' = today + 1
    /\ req' = NoRequest
    /\ resp' = NoResponse
    /\ view' = NoView
    /\ hist' = NoToggles
    /\ UNCHANGED <<habits, completions>>
    /\ SequentialFrame

Next ==
    \/ add_habit
    \/ toggle_completion
    \/ reset_week
    \/ delete_habit
    \/ edit_habit_get
    \/ edit_habit_post
    \/ update_time_of_day
    \/ index
    \/ admin_panel
    \/ midnight

Spec == Init /\ [][Next]_vars

----
\* The index view over any tables: the habits, the completion rows (several
\* rows for one (habit_id, date) among them) and the date are drawn from
\* bounded sets.

IndexHabitIds == {1, 2}
IndexDays == {Sunday - 7, Sunday - 6, Sunday, Monday, Monday + 6, Monday + 7}
IndexTodays == {Sunday, Monday}

InitIndex ==
    /\ today \in IndexTodays
    /\ \E ids \in (SUBSET IndexHabitIds) \ {{}} :
           habits = {Habit(i, "Read", "", Sunday - 7, "partly_sunny") : i \in ids}
    /\ \E k \in 0..MaxIndexRows :
       \E f \in [1..k -> IndexHabitIds \X IndexDays] :
           completions = {Completion(i, f[i][1], f[i][2], TRUE,
                                     "Read", "", "partly_sunny") : i \in 1..k}
    /\ req = NoRequest
    /\ resp = NoResponse
    /\ view = NoView
    /\ hist = NoToggles
    /\ pc = Idle
    /\ local = NoLocals
    /\ stale = FALSE

NextIndex == index

SpecIndex == InitIndex /\ [][NextIndex]_vars

----
\* Concurrent toggle_completion requests: each worker runs the lookups of
\* lines 101-112 and the commit of lines 113-124 as two steps.

toggle_lookup(w) ==
    \E habit_id \in 1..MaxHabitId, day \in Days :
        /\ pc[w] = "idle"
        /\ IF HabitGet(habit_id) = {}
           THEN \* habit.name raises AttributeError: the request ends
                /\ req' = Request("toggle_completion", habit_id, day, NoForm)
                /\ resp' = ServerError
                /\ UNCHANGED <<pc, local>>
           ELSE \E h \in HabitGet(habit_id) :
                \E l \in ToggleLookups(completions, h, day) :
                    /\ local' = [local EXCEPT ![w] = {l}]
                    /\ pc' = [pc EXCEPT ![w] = "commit"]
                    /\ UNCHANGED <<req, resp>>
        /\ UNCHANGED <<habits, completions, today, view, hist, stale>>

toggle_commit(w) ==
    \E l \in local[w] :
        /\ pc[w] = "commit"
        /\ CommitInBounds(completions, l)
        /\ completions' = ToggleCommit(completions, l)
        \* a DELETE that matches no row is a warning, not an error
        /\ stale' = (stale \/ \E e \in l.existing : \A c \in completions : c.id # e.id)
        /\ pc' = [pc EXCEPT ![w] = "idle"]
        /\ local' = [local EXCEPT ![w] = {}]
        /\ req' = Request("toggle_completion", l.habit_id, l.day, NoForm)
        /\ resp' = Redirect
        /\ UNCHANGED <<habits, today, view, hist>>

NextConcurrent ==
    \/ add_habit
    \/ \E w \in Workers : toggle_lookup(w)
    \/ \E w \in Workers : toggle_commit(w)

SpecConcurrent == Init /\ [][NextConcurrent]_vars

----
\* Properties.

\* The Monday-through-Sunday week a date lies in, counted from ordinal 1,
\* a Monday.
WeekOf(d) == (d - 1) \div 7

\* The frozen fields of the rows for the pair the last request named.
FrozenNow == {Frozen(c) : c \in CompletionsFor(completions, req.habit_id, req.day)}

\* C1 as stated: after two toggles of one (habit, day) in succession, a row
\* for the pair exists iff one existed before, with the frozen name,
\* description and time_of_day it had before.
C1_ToggleTwiceRestoresRow == hist.n = 2 => FrozenNow = hist.before

\* C1 amended: after two toggles of one (habit, day) in succession, a row for
\* the pair exists iff one existed before, and when it exists its frozen
\* fields are the habit's name, description and time_of_day as they are at
\* the second toggle.
C1_ToggleTwiceRestoresExistence ==
    hist.n = 2 =>
        /\ (FrozenNow = {}) <=> (hist.before = {})
        /\ \A h \in HabitGet(req.habit_id) : FrozenNow \subseteq {Frozen(h)}

\* The pair toggled twice had a row before, and the row it has now carries
\* other frozen fields.
C1_Witness == hist.n = 2 /\ hist.before # {} /\ FrozenNow # hist.before

\* C2: under sequential requests there is at most one Completion row per
\* (habit_id, date), and every Completion row has completed = true.
C2_OneRowPerPair ==
    /\ \A c1, c2 \in completions :
           (c1.habit_id = c2.habit_id /\ c1.date = c2.date) => c1 = c2
    /\ \A c \in completions : c.completed = TRUE

\* Two rows exist, the second of them inserted by the toggle handled last.
C2_Witness ==
    /\ Cardinality(completions) = 2
    /\ req.op = "toggle_completion"
    /\ resp = Redirect
    /\ hist.deleted = 0

\* C3: under sequential requests every Completion's habit_id is the id of an
\* existing Habit; after delete_habit(H) neither H nor a Completion of H is
\* left, and a toggle for a missing habit leaves no row of that habit.
C3_NoOrphanCompletion ==
    /\ \A c \in completions : \E h \in habits : h.id = c.habit_id
    /\ (req.op = "delete_habit" /\ resp = Redirect) =>
           /\ HabitGet(req.habit_id) = {}
           /\ \A c \in completions : c.habit_id # req.habit_id
    /\ (req.op = "toggle_completion" /\ resp = ServerError) =>
           \A c \in completions : c.habit_id # req.habit_id

\* delete_habit has deleted a habit together with a Completion of it, and
\* another habit keeps its Completion.
C3_Witness ==
    /\ req.op = "delete_habit"
    /\ resp = Redirect
    /\ hist.deleted > 0
    /\ completions # {}

\* C4: a Completion is created with the name, description and time_of_day its
\* Habit has when the toggle runs; no request changes a field of a Completion
\* it does not delete; edit_habit and update_time_of_day change no Completion.
C4_SnapshotFrozen ==
    [][ /\ \A c \in completions :
               c \in completions' \/ \A o \in completions' : o.id # c.id
        /\ \A c \in completions' \ completions :
               \E h \in habits : h.id = c.habit_id /\ Frozen(c) = Frozen(h)
        /\ req'.op \in {"edit_habit POST", "update_time_of_day"} =>
               completions' = completions ]_vars

\* An edit has left a Completion with frozen fields that differ from its
\* Habit's in name, description and time_of_day.
C4_Witness ==
    /\ req.op = "edit_habit POST"
    /\ resp = Redirect
    /\ \E c \in completions : \E h \in HabitGet(req.habit_id) :
           /\ c.habit_id = h.id
           /\ c.name # h.name
           /\ c.description # h.description
           /\ c.time_of_day # h.time_of_day

\* C5: reset_week deletes exactly the Completion rows dated in the
\* Monday-through-Sunday week of today, and changes no Habit.
C5_ResetWeekExact ==
    [][ req'.op = "reset_week" =>
            /\ completions' = {c \in completions : WeekOf(c.date) # WeekOf(today)}
            /\ habits' = habits ]_vars

\* reset_week has deleted a row and kept a row of another week.
C5_Witness ==
    /\ req.op = "reset_week"
    /\ hist.deleted > 0
    /\ completions # {}

\* The dates of the reference week of today on which a Completion of the
\* habit exists, shifted back by a number of days.
DatesDone(habit_id, shift) ==
    {d \in (today - 6)..(today + 6) :
        /\ WeekOf(d) = WeekOf(today)
        /\ \E c \in completions : c.habit_id = habit_id /\ c.date = d - shift}

\* C6: weekly_fraction of the index view is (the number of distinct dates of
\* the reference week with a Completion of the habit) / 7, between 0 and 1.
C6_WeeklyFraction ==
    \A v \in view : \A h \in habits :
        /\ v.habit_progress[h.id] = <<Cardinality(DatesDone(h.id, 0)), 7>>
        /\ v.habit_progress[h.id][1] \in 0..7

\* The view is rendered over a table that holds two rows for one
\* (habit_id, date) of the reference week and a row outside the week.
C6_Witness ==
    /\ view # {}
    /\ \E c1, c2 \in completions :
           /\ c1 # c2
           /\ c1.habit_id = c2.habit_id
           /\ c1.date = c2.date
           /\ WeekOf(c1.date) = WeekOf(today)
           /\ \E h \in habits : h.id = c1.habit_id
    /\ \E c \in completions : WeekOf(c.date) # WeekOf(today)

\* C7: the trend of the index view is IMPROVED iff the reference week has
\* more completed dates than the seven dates 7 days earlier, WORSENED iff
\* fewer, FLAT iff as many.
C7_Trend ==
    \A v \in view : \A h \in habits :
        LET curr == Cardinality(DatesDone(h.id, 0))
            last == Cardinality(DatesDone(h.id, 7))
        IN  /\ (v.trend_icon[h.id] = Improved) <=> (curr > last)
            /\ (v.trend_icon[h.id] = Worsened) <=> (curr < last)
            /\ (v.trend_icon[h.id] = Flat) <=> (curr = last)
            /\ v.trend_icon[h.id] \in {Improved, Worsened, Flat}

\* The view shows a habit without any Completion as FLAT and another as
\* WORSENED.
C7_Witness ==
    \E v \in view : \E h1, h2 \in habits :
        /\ v.trend_icon[h1.id] = Flat
        /\ \A c \in completions : c.habit_id # h1.id
        /\ v.trend_icon[h2.id] = Worsened

\* C8 as stated: add_habit with only a name adds one Habit with an empty
\* description and the time_of_day that is the Habit column's default, of
\* rank 1, and changes no other Habit and no Completion.
C8_AddHabitDefaults ==
    [][ (/\ req'.op = "add_habit"
         /\ req'.form["description"] = Missing
         /\ req'.form["time_of_day"] = Missing) =>
            /\ completions' = completions
            /\ \E h \in habits' \ habits :
                   /\ habits' = habits \cup {h}
                   /\ h.name = req'.form["name"]
                   /\ h.description = ""
                   /\ h.time_of_day = HabitDefaultTimeOfDay
                   /\ time_order(h.time_of_day) = 1 ]_vars

\* C9: delete_habit, edit_habit and update_time_of_day for a habit_id that
\* does not exist answer 404 and change no Habit and no Completion.
C9_NotFoundChangesNothing ==
    [][ (/\ req'.op \in {"delete_habit", "edit_habit GET", "edit_habit POST",
                         "update_time_of_day"}
         /\ HabitGet(req'.habit_id) = {}) =>
            /\ resp' = NotFound
            /\ habits' = habits
            /\ completions' = completions ]_vars

\* A 404 was answered while a Habit and a Completion exist.
C9_Witness ==
    /\ resp = NotFound
    /\ req.op = "update_time_of_day"
    /\ habits # {}
    /\ completions # {}

\* C10: the commit of a concurrent toggle acts on what its own lookup found,
\* whatever the table holds by then: after a lookup that found no row it
\* inserts a row, after a lookup that found a row it deletes by that row's id.
C10_CommitFollowsLookup ==
    [][ \A w \in Workers : (pc[w] = "commit" /\ pc'[w] = "idle") =>
            \A l \in local[w] :
                IF l.existing = {}
                THEN \E c \in completions' \ completions :
                        /\ completions' = completions \cup {c}
                        /\ c.habit_id = l.habit_id
                        /\ c.date = l.day
                ELSE completions' =
                        {c \in completions : \A e \in l.existing : c.id # e.id} ]_vars

\* Two rows for one (habit_id, date) exist, and before that two requests
\* had chosen to delete one row, the DELETE of the second matching none.
C10_Witness ==
    /\ stale
    /\ \E c1, c2 \in completions :
           c1 # c2 /\ c1.habit_id = c2.habit_id /\ c1.date = c2.date
====
